---- MODULE Spec2Model ----
(***************************************************************************)
(* Study session state machine (StudySession) and its lifecycle wrapper    *)
(* (StudyManager) of the flashcard application, together with the part of  *)
(* the Card Store (DataService) the manager reads, and the record managers *)
(* (FlashcardManager, DeckManager, ValidationService) that write it.       *)
(*                                                                         *)
(* JavaScript indices are 0-based: the card at index i of a session is     *)
(* s.flashcards[i + 1] here.                                               *)
(***************************************************************************)
EXTENDS Integers, Sequences, FiniteSets, TLC

\* ------------------------------------------------------------------ bounds
MaxCards == 2       \* flashcard ids ever generated while the store is written
MaxDeck == 3        \* most flashcards of a store that is only read
MaxTime == 1        \* the clock advances at most this many ticks
MaxIds == 3         \* ids generateId() hands out to the record managers

\* --------------------------------------------------------------- constants
DeckIds == {"d1", "d2"}
NullTime == -1      \* endTime = null
TickMs == 500       \* milliseconds per clock tick of the model

VARIABLES
    decks,          \* localStorage['decks']: array of deck records
    flashcards,     \* localStorage['flashcards']: array of flashcard records
    nextCardId,     \* number of flashcard ids generated so far
    nextDeckId,     \* number of deck ids generated so far
    now,            \* the clock read by new Date(), in ticks
    currentSession, \* StudyManager.currentSession (NoSession when null)
    lastCall,       \* the operation called last, with its arguments; for start,
                    \* also whether a session was current when it was called
    result,         \* what that operation returned
    nextsOnly       \* number of next() calls since the last successful start while
                    \* no other navigation or lifecycle call was made since (queries
                    \* are not counted); -1 otherwise

vars == <<decks, flashcards, nextCardId, nextDeckId, now, currentSession, lastCall, result, nextsOnly>>

\* ------------------------------------------------------- JavaScript values
JsUndefined == [type |-> "undefined"]
JsString(s) == [type |-> "string", str |-> s]
\* a number is held as its integer part and whether one half is added to it:
\* the numbers of the model are the integers and the integers plus 0.5
JsNumber(n) == [type |-> "number", num |-> n, half |-> FALSE]
JsNumberAndHalf(n) == [type |-> "number", num |-> n, half |-> TRUE]

\* !v
JsFalsy(v) ==
    \/ v.type = "undefined"
    \/ v.type = "string" /\ v.str = ""
    \/ v.type = "number" /\ v.num = 0 /\ ~v.half

\* Math.round(num / den) for num >= 0, den > 0
MathRound(num, den) == (2 * num + den) \div (2 * den)

NoSession == [null |-> TRUE]
NullCard == [null |-> TRUE]

Card(id, deckId) == [id |-> id, deckId |-> deckId]

\* ------------------------------------------------------------ StudySession
\* this.currentIndex is the number currentIndex (+ 0.5 when currentIndexHalf);
\* this.reviewedCards holds the integers of reviewedCards and k + 0.5 for
\* every k of reviewedHalves
StudySession(deckId, cards, t) ==
    [deckId |-> deckId,
     flashcards |-> cards,
     currentIndex |-> 0,
     currentIndexHalf |-> FALSE,
     startTime |-> t,
     endTime |-> NullTime,
     isComplete |-> FALSE,
     reviewedCards |-> {},
     reviewedHalves |-> {}]

\* flashcards[i] of an i that is not an integer is undefined
StudySession_getCurrentFlashcard_ignoresComplete(s) ==
    IF s.currentIndex >= Len(s.flashcards)
    THEN NullCard
    ELSE IF s.currentIndexHalf
    THEN JsUndefined
    ELSE s.flashcards[s.currentIndex + 1]

StudySession_getCurrentFlashcard(s) ==
    IF s.isComplete \/ s.currentIndex >= Len(s.flashcards)
    THEN NullCard
    ELSE IF s.currentIndexHalf
    THEN JsUndefined
    ELSE s.flashcards[s.currentIndex + 1]

StudySession_completeSession_skipsUnvisited(s, t) ==
    [s EXCEPT !.isComplete = TRUE, !.endTime = t]

StudySession_completeSession(s, t) ==
    [s EXCEPT !.isComplete = TRUE,
              !.endTime = t,
              !.reviewedCards = @ \cup (0 .. (Len(s.flashcards) - 1))]

StudySession_nextFlashcard_offByOne(s, t) ==
    IF s.isComplete
    THEN [session |-> s, value |-> FALSE]
    ELSE LET marked == IF s.currentIndex >= Len(s.flashcards)
                       THEN s
                       ELSE IF s.currentIndexHalf
                       THEN [s EXCEPT !.reviewedHalves = @ \cup {s.currentIndex}]
                       ELSE [s EXCEPT !.reviewedCards = @ \cup {s.currentIndex}]
             moved == [marked EXCEPT !.currentIndex = @ + 1]
         IN  IF moved.currentIndex >= Len(s.flashcards) - 1
             THEN [session |-> StudySession_completeSession(moved, t), value |-> FALSE]
             ELSE [session |-> moved, value |-> TRUE]

StudySession_nextFlashcard_wrapsAround(s, t) ==
    IF s.isComplete
    THEN [session |-> s, value |-> FALSE]
    ELSE LET marked == [s EXCEPT !.reviewedCards = @ \cup {s.currentIndex}]
             moved == [marked EXCEPT !.currentIndex = (@ + 1) % Len(s.flashcards)]
         IN  [session |-> moved, value |-> TRUE]

StudySession_nextFlashcard_noCompleteGuard(s, t) ==
    LET marked == IF s.currentIndex >= Len(s.flashcards)
                  THEN s
                  ELSE IF s.currentIndexHalf
                  THEN [s EXCEPT !.reviewedHalves = @ \cup {s.currentIndex}]
                  ELSE [s EXCEPT !.reviewedCards = @ \cup {s.currentIndex}]
        moved == [marked EXCEPT !.currentIndex = @ + 1]
    IN  IF moved.currentIndex >= Len(s.flashcards)
        THEN [session |-> StudySession_completeSession(moved, t), value |-> FALSE]
        ELSE [session |-> moved, value |-> TRUE]

StudySession_nextFlashcard_marksAfterMove(s, t) ==
    IF s.isComplete
    THEN [session |-> s, value |-> FALSE]
    ELSE LET moved == [s EXCEPT !.currentIndex = @ + 1]
             marked == IF moved.currentIndex >= Len(s.flashcards)
                       THEN moved
                       ELSE [moved EXCEPT !.reviewedCards = @ \cup {moved.currentIndex}]
         IN  IF moved.currentIndex >= Len(s.flashcards)
             THEN [session |-> StudySession_completeSession(marked, t), value |-> FALSE]
             ELSE [session |-> marked, value |-> TRUE]

StudySession_nextFlashcard(s, t) ==
    IF s.isComplete
    THEN [session |-> s, value |-> FALSE]
    ELSE LET marked == IF s.currentIndex >= Len(s.flashcards)
                       THEN s
                       ELSE IF s.currentIndexHalf
                       THEN [s EXCEPT !.reviewedHalves = @ \cup {s.currentIndex}]
                       ELSE [s EXCEPT !.reviewedCards = @ \cup {s.currentIndex}]
             moved == [marked EXCEPT !.currentIndex = @ + 1]
         IN  IF moved.currentIndex >= Len(s.flashcards)
             THEN [session |-> StudySession_completeSession(moved, t), value |-> FALSE]
             ELSE [session |-> moved, value |-> TRUE]

StudySession_previousFlashcard_onlyToReviewed(s) ==
    IF s.currentIndex > 0 /\ (s.currentIndex - 1) \in s.reviewedCards
    THEN [session |-> [s EXCEPT !.currentIndex = @ - 1], value |-> TRUE]
    ELSE [session |-> s, value |-> FALSE]

StudySession_previousFlashcard_refusesWhenComplete(s) ==
    IF s.currentIndex > 0 /\ ~s.isComplete
    THEN [session |-> [s EXCEPT !.currentIndex = @ - 1], value |-> TRUE]
    ELSE [session |-> s, value |-> FALSE]

StudySession_previousFlashcard(s) ==
    IF s.currentIndex > 0 \/ (s.currentIndex = 0 /\ s.currentIndexHalf)
    THEN [session |-> [s EXCEPT !.currentIndex = @ - 1], value |-> TRUE]
    ELSE [session |-> s, value |-> FALSE]

StudySession_jumpToFlashcard_inclusiveBound(s, index) ==
    IF index.num >= 0 /\ index.num <= Len(s.flashcards) /\ ~s.isComplete
    THEN [session |-> [s EXCEPT !.currentIndex = index.num,
                                !.currentIndexHalf = index.half],
          value |-> TRUE]
    ELSE [session |-> s, value |-> FALSE]

\* index is a number: n + 0.5 >= 0 iff n >= 0, and n + 0.5 < length iff n < length
StudySession_jumpToFlashcard_completesAtLast(s, index) ==
    IF index.num >= 0 /\ index.num < Len(s.flashcards) /\ ~s.isComplete
    THEN [session |-> [s EXCEPT !.currentIndex = index.num,
                                !.currentIndexHalf = index.half,
                                !.isComplete = (index.num = Len(s.flashcards) - 1)],
          value |-> TRUE]
    ELSE [session |-> s, value |-> FALSE]

StudySession_jumpToFlashcard(s, index) ==
    IF index.num >= 0 /\ index.num < Len(s.flashcards) /\ ~s.isComplete
    THEN [session |-> [s EXCEPT !.currentIndex = index.num,
                                !.currentIndexHalf = index.half],
          value |-> TRUE]
    ELSE [session |-> s, value |-> FALSE]

\* this.reviewedCards.size
StudySession_reviewedSize(s) ==
    Cardinality(s.reviewedCards) + Cardinality(s.reviewedHalves)

StudySession_getProgress_noNextWhenComplete(s) ==
    [currentIndex |-> s.currentIndex,
     currentIndexHalf |-> s.currentIndexHalf,
     totalCards |-> Len(s.flashcards),
     reviewedCount |-> StudySession_reviewedSize(s),
     percentComplete |-> IF Len(s.flashcards) > 0
                         THEN MathRound(StudySession_reviewedSize(s) * 100, Len(s.flashcards))
                         ELSE 100,
     isComplete |-> s.isComplete,
     hasNext |-> ~s.isComplete /\ s.currentIndex < Len(s.flashcards) - 1,
     hasPrevious |-> s.currentIndex > 0 \/ (s.currentIndex = 0 /\ s.currentIndexHalf)]

StudySession_getProgress(s) ==
    [currentIndex |-> s.currentIndex,
     currentIndexHalf |-> s.currentIndexHalf,
     totalCards |-> Len(s.flashcards),
     reviewedCount |-> StudySession_reviewedSize(s),
     percentComplete |-> IF Len(s.flashcards) > 0
                         THEN MathRound(StudySession_reviewedSize(s) * 100, Len(s.flashcards))
                         ELSE 100,
     isComplete |-> s.isComplete,
     hasNext |-> s.currentIndex < Len(s.flashcards) - 1,
     hasPrevious |-> s.currentIndex > 0 \/ (s.currentIndex = 0 /\ s.currentIndexHalf)]

StudySession_getSessionSummary_countsCurrent(s, t) ==
    [deckId |-> s.deckId,
     totalCards |-> Len(s.flashcards),
     reviewedCards |-> Cardinality(s.reviewedCards \cup {s.currentIndex})
                          + Cardinality(s.reviewedHalves),
     duration |-> IF s.endTime # NullTime
                  THEN MathRound((s.endTime - s.startTime) * TickMs, 1000)
                  ELSE MathRound((t - s.startTime) * TickMs, 1000),
     startTime |-> s.startTime,
     endTime |-> s.endTime,
     isComplete |-> s.isComplete]

StudySession_getSessionSummary(s, t) ==
    [deckId |-> s.deckId,
     totalCards |-> Len(s.flashcards),
     reviewedCards |-> StudySession_reviewedSize(s),
     duration |-> IF s.endTime # NullTime
                  THEN MathRound((s.endTime - s.startTime) * TickMs, 1000)
                  ELSE MathRound((t - s.startTime) * TickMs, 1000),
     startTime |-> s.startTime,
     endTime |-> s.endTime,
     isComplete |-> s.isComplete]

StudySession_reset_keepsReviewed(s, t) ==
    [s EXCEPT !.currentIndex = 0,
              !.currentIndexHalf = FALSE,
              !.isComplete = FALSE,
              !.endTime = NullTime,
              !.startTime = t]

StudySession_reset(s, t) ==
    [s EXCEPT !.currentIndex = 0,
              !.currentIndexHalf = FALSE,
              !.isComplete = FALSE,
              !.endTime = NullTime,
              !.reviewedCards = {},
              !.reviewedHalves = {},
              !.startTime = t]

\* ------------------------------------------------------------- DataService
NullDeck == [null |-> TRUE]

Deck(id) == [id |-> id]

\* decks.find(d => d.id === id), null when absent
DataService_loadDeck(ds, id) ==
    IF \E k \in 1..Len(ds) : ds[k].id = id
    THEN ds[CHOOSE k \in 1..Len(ds) : ds[k].id = id /\ \A j \in 1..(k - 1) : ds[j].id # id]
    ELSE NullDeck

\* flashcards.filter(f => f.deckId === deckId), in storage order
DataService_loadFlashcardsForDeck(fs, deckId) ==
    SelectSeq(fs, LAMBDA f : f.deckId = deckId)

\* replace the record with the same id, or push
DataService_saveFlashcard(fs, card) ==
    IF \E k \in 1..Len(fs) : fs[k].id = card.id
    THEN [k \in 1..Len(fs) |-> IF k = (CHOOSE j \in 1..Len(fs) : fs[j].id = card.id /\ \A i \in 1..(j - 1) : fs[i].id # card.id)
                               THEN card ELSE fs[k]]
    ELSE Append(fs, card)

DataService_deleteFlashcard(fs, id) ==
    SelectSeq(fs, LAMBDA f : f.id # id)

DataService_saveDeck(ds, deck) ==
    IF \E k \in 1..Len(ds) : ds[k].id = deck.id
    THEN [k \in 1..Len(ds) |-> IF k = (CHOOSE j \in 1..Len(ds) : ds[j].id = deck.id /\ \A i \in 1..(j - 1) : ds[i].id # deck.id)
                               THEN deck ELSE ds[k]]
    ELSE Append(ds, deck)

DataService_deleteDeck(ds, id) ==
    SelectSeq(ds, LAMBDA d : d.id # id)

\* ------------------------------------------------------------ StudyManager
Failure(message) == [success |-> FALSE, errors |-> <<message>>]

NoActiveSession == "No active study session"

\* fault names the Card Store call that raises, "none" when both return
StoreFaults == {"none", "loadDeck", "loadFlashcardsForDeck"}

StudyManager_startStudySession_clearsOnFailure(m, deckId, ds, fs, fault, t) ==
    IF JsFalsy(deckId) \/ deckId.type # "string"
    THEN [currentSession |-> NoSession,
          result |-> Failure("Deck ID is required and must be a string")]
    ELSE IF fault = "loadDeck"
    THEN [currentSession |-> NoSession, result |-> Failure("Failed to start study session")]
    ELSE IF DataService_loadDeck(ds, deckId.str) = NullDeck
    THEN [currentSession |-> NoSession, result |-> Failure("Deck not found")]
    ELSE IF fault = "loadFlashcardsForDeck"
    THEN [currentSession |-> NoSession, result |-> Failure("Failed to start study session")]
    ELSE LET cards == DataService_loadFlashcardsForDeck(fs, deckId.str)
         IN  IF Len(cards) = 0
             THEN [currentSession |-> NoSession,
                   result |-> Failure("Deck contains no flashcards to study")]
             ELSE LET session == StudySession(deckId.str, cards, t)
                  IN  [currentSession |-> session,
                       result |-> [success |-> TRUE, session |-> session]]

StudyManager_startStudySession_skipsEmptyCheck(m, deckId, ds, fs, fault, t) ==
    IF JsFalsy(deckId) \/ deckId.type # "string"
    THEN [currentSession |-> m,
          result |-> Failure("Deck ID is required and must be a string")]
    ELSE IF fault = "loadDeck"
    THEN [currentSession |-> m, result |-> Failure("Failed to start study session")]
    ELSE IF DataService_loadDeck(ds, deckId.str) = NullDeck
    THEN [currentSession |-> m, result |-> Failure("Deck not found")]
    ELSE IF fault = "loadFlashcardsForDeck"
    THEN [currentSession |-> m, result |-> Failure("Failed to start study session")]
    ELSE LET session == StudySession(deckId.str, DataService_loadFlashcardsForDeck(fs, deckId.str), t)
         IN  [currentSession |-> session,
              result |-> [success |-> TRUE, session |-> session]]

\* the fault of the store call reaches the caller: no errors list is handed back
StudyManager_startStudySession_rethrows(m, deckId, ds, fs, fault, t) ==
    IF JsFalsy(deckId) \/ deckId.type # "string"
    THEN [currentSession |-> m,
          result |-> Failure("Deck ID is required and must be a string")]
    ELSE IF fault = "loadDeck"
    THEN [currentSession |-> m, result |-> [success |-> FALSE, thrown |-> "loadDeck"]]
    ELSE IF DataService_loadDeck(ds, deckId.str) = NullDeck
    THEN [currentSession |-> m, result |-> Failure("Deck not found")]
    ELSE IF fault = "loadFlashcardsForDeck"
    THEN [currentSession |-> m, result |-> [success |-> FALSE, thrown |-> "loadFlashcardsForDeck"]]
    ELSE LET cards == DataService_loadFlashcardsForDeck(fs, deckId.str)
         IN  IF Len(cards) = 0
             THEN [currentSession |-> m,
                   result |-> Failure("Deck contains no flashcards to study")]
             ELSE LET session == StudySession(deckId.str, cards, t)
                  IN  [currentSession |-> session,
                       result |-> [success |-> TRUE, session |-> session]]

StudyManager_startStudySession_refusesWhenActive(m, deckId, ds, fs, fault, t) ==
    IF m # NoSession
    THEN [currentSession |-> m, result |-> Failure("A study session is already active")]
    ELSE IF JsFalsy(deckId) \/ deckId.type # "string"
    THEN [currentSession |-> m,
          result |-> Failure("Deck ID is required and must be a string")]
    ELSE IF fault = "loadDeck"
    THEN [currentSession |-> m, result |-> Failure("Failed to start study session")]
    ELSE IF DataService_loadDeck(ds, deckId.str) = NullDeck
    THEN [currentSession |-> m, result |-> Failure("Deck not found")]
    ELSE IF fault = "loadFlashcardsForDeck"
    THEN [currentSession |-> m, result |-> Failure("Failed to start study session")]
    ELSE LET cards == DataService_loadFlashcardsForDeck(fs, deckId.str)
         IN  IF Len(cards) = 0
             THEN [currentSession |-> m,
                   result |-> Failure("Deck contains no flashcards to study")]
             ELSE LET session == StudySession(deckId.str, cards, t)
                  IN  [currentSession |-> session,
                       result |-> [success |-> TRUE, session |-> session]]

StudyManager_startStudySession(m, deckId, ds, fs, fault, t) ==
    IF JsFalsy(deckId) \/ deckId.type # "string"
    THEN [currentSession |-> m,
          result |-> Failure("Deck ID is required and must be a string")]
    ELSE IF fault = "loadDeck"
    THEN [currentSession |-> m, result |-> Failure("Failed to start study session")]
    ELSE IF DataService_loadDeck(ds, deckId.str) = NullDeck
    THEN [currentSession |-> m, result |-> Failure("Deck not found")]
    ELSE IF fault = "loadFlashcardsForDeck"
    THEN [currentSession |-> m, result |-> Failure("Failed to start study session")]
    ELSE LET cards == DataService_loadFlashcardsForDeck(fs, deckId.str)
         IN  IF Len(cards) = 0
             THEN [currentSession |-> m,
                   result |-> Failure("Deck contains no flashcards to study")]
             ELSE LET session == StudySession(deckId.str, cards, t)
                  IN  [currentSession |-> session,
                       result |-> [success |-> TRUE, session |-> session]]

StudyManager_nextFlashcard_clearsWhenComplete(m, t) ==
    IF m = NoSession
    THEN [currentSession |-> m, result |-> Failure(NoActiveSession)]
    ELSE LET r == StudySession_nextFlashcard(m, t)
         IN  [currentSession |-> IF r.session.isComplete THEN NoSession ELSE r.session,
              result |-> [success |-> TRUE,
                          hasNext |-> r.value,
                          isComplete |-> r.session.isComplete]]

StudyManager_nextFlashcard_failsWhenComplete(m, t) ==
    IF m = NoSession
    THEN [currentSession |-> m, result |-> Failure(NoActiveSession)]
    ELSE IF m.isComplete
    THEN [currentSession |-> m, result |-> Failure("Session is complete")]
    ELSE LET r == StudySession_nextFlashcard(m, t)
         IN  [currentSession |-> r.session,
              result |-> [success |-> TRUE,
                          hasNext |-> r.value,
                          isComplete |-> r.session.isComplete]]

StudyManager_nextFlashcard(m, t) ==
    IF m = NoSession
    THEN [currentSession |-> m, result |-> Failure(NoActiveSession)]
    ELSE LET r == StudySession_nextFlashcard(m, t)
         IN  [currentSession |-> r.session,
              result |-> [success |-> TRUE,
                          hasNext |-> r.value,
                          isComplete |-> r.session.isComplete]]

StudyManager_previousFlashcard(m) ==
    IF m = NoSession
    THEN [currentSession |-> m, result |-> Failure(NoActiveSession)]
    ELSE LET r == StudySession_previousFlashcard(m)
         IN  [currentSession |-> r.session,
              result |-> [success |-> TRUE, hasPrevious |-> r.value]]

StudyManager_jumpToFlashcard(m, index) ==
    IF m = NoSession
    THEN [currentSession |-> m, result |-> Failure(NoActiveSession)]
    ELSE IF index.type # "number" \/ index.num < 0
    THEN [currentSession |-> m, result |-> Failure("Index must be a non-negative number")]
    ELSE LET r == StudySession_jumpToFlashcard(m, index)
         IN  IF ~r.value
             THEN [currentSession |-> r.session,
                   result |-> Failure("Invalid flashcard index or session is complete")]
             ELSE [currentSession |-> r.session, result |-> [success |-> TRUE]]

StudyManager_getCurrentFlashcard(m) ==
    IF m = NoSession
    THEN [currentSession |-> m, result |-> Failure(NoActiveSession)]
    ELSE LET flashcard == StudySession_getCurrentFlashcard(m)
         IN  IF flashcard = NullCard \/ flashcard = JsUndefined
             THEN [currentSession |-> m,
                   result |-> Failure("No current flashcard (session may be complete)")]
             ELSE [currentSession |-> m,
                   result |-> [success |-> TRUE, flashcard |-> flashcard]]

StudyManager_getSessionProgress_failsWhenComplete(m) ==
    IF m = NoSession
    THEN [currentSession |-> m, result |-> Failure(NoActiveSession)]
    ELSE IF m.isComplete
    THEN [currentSession |-> m, result |-> Failure("Session is complete")]
    ELSE [currentSession |-> m,
          result |-> [success |-> TRUE, progress |-> StudySession_getProgress(m)]]

StudyManager_getSessionProgress(m) ==
    IF m = NoSession
    THEN [currentSession |-> m, result |-> Failure(NoActiveSession)]
    ELSE [currentSession |-> m,
          result |-> [success |-> TRUE, progress |-> StudySession_getProgress(m)]]

StudyManager_completeSession_asIs(m, t) ==
    IF m = NoSession
    THEN [currentSession |-> m, result |-> Failure(NoActiveSession)]
    ELSE [currentSession |-> NoSession,
          result |-> [success |-> TRUE, summary |-> StudySession_getSessionSummary(m, t)]]

StudyManager_completeSession(m, t) ==
    IF m = NoSession
    THEN [currentSession |-> m, result |-> Failure(NoActiveSession)]
    ELSE LET s == IF ~m.isComplete THEN StudySession_completeSession(m, t) ELSE m
         IN  [currentSession |-> NoSession,
              result |-> [success |-> TRUE, summary |-> StudySession_getSessionSummary(s, t)]]

StudyManager_resetSession_dropsSession(m, t) ==
    IF m = NoSession
    THEN [currentSession |-> m, result |-> Failure(NoActiveSession)]
    ELSE [currentSession |-> NoSession, result |-> [success |-> TRUE]]

StudyManager_resetSession(m, t) ==
    IF m = NoSession
    THEN [currentSession |-> m, result |-> Failure(NoActiveSession)]
    ELSE [currentSession |-> StudySession_reset(m, t), result |-> [success |-> TRUE]]

StudyManager_endSession_forcesCompletion(m, t) ==
    IF m = NoSession
    THEN [currentSession |-> m, result |-> Failure(NoActiveSession)]
    ELSE [currentSession |-> NoSession,
          result |-> [success |-> TRUE,
                      summary |-> StudySession_getSessionSummary(StudySession_completeSession(m, t), t)]]

StudyManager_endSession(m, t) ==
    IF m = NoSession
    THEN [currentSession |-> m, result |-> Failure(NoActiveSession)]
    ELSE [currentSession |-> NoSession,
          result |-> [success |-> TRUE, summary |-> StudySession_getSessionSummary(m, t)]]

StudyManager_hasActiveSession(m) == m # NoSession

StudyManager_getSessionSummary_unguarded(m, t) ==
    IF m = NoSession
    THEN [currentSession |-> m,
          result |-> [success |-> TRUE, summary |-> [totalCards |-> 0, reviewedCards |-> 0, isComplete |-> FALSE]]]
    ELSE [currentSession |-> m,
          result |-> [success |-> TRUE, summary |-> StudySession_getSessionSummary(m, t)]]

StudyManager_getSessionSummary_stampsEndTime(m, t) ==
    IF m = NoSession
    THEN [currentSession |-> m, result |-> Failure(NoActiveSession)]
    ELSE LET s == IF m.endTime = NullTime THEN [m EXCEPT !.endTime = t] ELSE m
         IN  [currentSession |-> s,
              result |-> [success |-> TRUE, summary |-> StudySession_getSessionSummary(s, t)]]

StudyManager_getSessionSummary(m, t) ==
    IF m = NoSession
    THEN [currentSession |-> m, result |-> Failure(NoActiveSession)]
    ELSE [currentSession |-> m,
          result |-> [success |-> TRUE, summary |-> StudySession_getSessionSummary(m, t)]]

\* ----------------------------------------------------- inputs of the calls
DeckIdInputs ==
    {JsUndefined, JsString(""), JsNumber(7)} \cup {JsString(d) : d \in DeckIds}

\* a Card Store call can raise only where it is made, on a text deckId
StartInputs ==
    {<<deckId, "none">> : deckId \in DeckIdInputs}
        \cup {<<JsString(d), fault>> : d \in DeckIds, fault \in StoreFaults \ {"none"}}

\* most cards a session can hold
MaxIndex == IF MaxCards > MaxDeck THEN MaxCards ELSE MaxDeck

IndexInputs ==
    {JsUndefined} \cup {JsNumber(i) : i \in -1..MaxIndex}

\* nextsOnly after one more next()
CountNext(n, succeeded) ==
    IF succeeded /\ n >= 0 /\ n <= MaxIndex THEN n + 1 ELSE -1

\* ------------------------------------------------- Card Store, other callers
SaveFlashcard(id, d) ==
    /\ \/ id = nextCardId + 1 /\ nextCardId < MaxCards
       \/ \E k \in 1..Len(flashcards) : flashcards[k].id = id /\ flashcards[k].deckId # d
    /\ flashcards' = DataService_saveFlashcard(flashcards, Card(id, d))
    /\ nextCardId' = IF id > nextCardId THEN id ELSE nextCardId
    /\ UNCHANGED <<decks, nextDeckId, now, currentSession, lastCall, result, nextsOnly>>

DeleteFlashcard_sharedList(id) ==
    /\ \E k \in 1..Len(flashcards) : flashcards[k].id = id
    /\ flashcards' = DataService_deleteFlashcard(flashcards, id)
    /\ currentSession' = IF currentSession = NoSession
                         THEN currentSession
                         ELSE [currentSession EXCEPT
                                  !.flashcards = DataService_deleteFlashcard(@, id)]
    /\ UNCHANGED <<decks, nextCardId, nextDeckId, now, lastCall, result, nextsOnly>>

DeleteFlashcard(id) ==
    /\ \E k \in 1..Len(flashcards) : flashcards[k].id = id
    /\ flashcards' = DataService_deleteFlashcard(flashcards, id)
    /\ UNCHANGED <<decks, nextCardId, nextDeckId, now, currentSession, lastCall, result, nextsOnly>>

\* a deck carries only its id here, so only the first save of a deck shows
SaveDeck(d) ==
    /\ DataService_loadDeck(decks, d) = NullDeck
    /\ decks' = DataService_saveDeck(decks, Deck(d))
    /\ UNCHANGED <<flashcards, nextCardId, nextDeckId, now, currentSession, lastCall, result, nextsOnly>>

DeleteDeck(d) ==
    /\ DataService_loadDeck(decks, d) # NullDeck
    /\ decks' = DataService_deleteDeck(decks, d)
    /\ UNCHANGED <<flashcards, nextCardId, nextDeckId, now, currentSession, lastCall, result, nextsOnly>>

\* ------------------------------------------------------------------- clock
Tick ==
    /\ now < MaxTime
    /\ now' = now + 1
    /\ UNCHANGED <<decks, flashcards, nextCardId, nextDeckId, currentSession, lastCall, result, nextsOnly>>

\* ------------------------------------------------ calls on the StudyManager
StartStudySession(deckId, fault) ==
    LET r == StudyManager_startStudySession(currentSession, deckId, decks, flashcards, fault, now)
    IN  /\ lastCall' = [op |-> "startStudySession", hadSession |-> currentSession # NoSession]
        /\ currentSession' = r.currentSession
        /\ result' = r.result
        /\ nextsOnly' = IF r.result.success THEN 0 ELSE -1
        /\ UNCHANGED <<decks, flashcards, nextCardId, nextDeckId, now>>

NextFlashcard ==
    LET r == StudyManager_nextFlashcard(currentSession, now)
    IN  /\ lastCall' = [op |-> "nextFlashcard"]
        /\ currentSession' = r.currentSession
        /\ result' = r.result
        /\ nextsOnly' = CountNext(nextsOnly, r.result.success)
        /\ UNCHANGED <<decks, flashcards, nextCardId, nextDeckId, now>>

PreviousFlashcard ==
    LET r == StudyManager_previousFlashcard(currentSession)
    IN  /\ lastCall' = [op |-> "previousFlashcard"]
        /\ currentSession' = r.currentSession
        /\ result' = r.result
        /\ nextsOnly' = -1
        /\ UNCHANGED <<decks, flashcards, nextCardId, nextDeckId, now>>

JumpToFlashcard(index) ==
    LET r == StudyManager_jumpToFlashcard(currentSession, index)
    IN  /\ lastCall' = [op |-> "jumpToFlashcard"]
        /\ currentSession' = r.currentSession
        /\ result' = r.result
        /\ nextsOnly' = -1
        /\ UNCHANGED <<decks, flashcards, nextCardId, nextDeckId, now>>

GetCurrentFlashcard ==
    LET r == StudyManager_getCurrentFlashcard(currentSession)
    IN  /\ lastCall' = [op |-> "getCurrentFlashcard"]
        /\ currentSession' = r.currentSession
        /\ result' = r.result
        /\ nextsOnly' = nextsOnly
        /\ UNCHANGED <<decks, flashcards, nextCardId, nextDeckId, now>>

GetSessionProgress ==
    LET r == StudyManager_getSessionProgress(currentSession)
    IN  /\ lastCall' = [op |-> "getSessionProgress"]
        /\ currentSession' = r.currentSession
        /\ result' = r.result
        /\ nextsOnly' = nextsOnly
        /\ UNCHANGED <<decks, flashcards, nextCardId, nextDeckId, now>>

CompleteSession ==
    LET r == StudyManager_completeSession(currentSession, now)
    IN  /\ lastCall' = [op |-> "completeSession"]
        /\ currentSession' = r.currentSession
        /\ result' = r.result
        /\ nextsOnly' = -1
        /\ UNCHANGED <<decks, flashcards, nextCardId, nextDeckId, now>>

ResetSession ==
    LET r == StudyManager_resetSession(currentSession, now)
    IN  /\ lastCall' = [op |-> "resetSession"]
        /\ currentSession' = r.currentSession
        /\ result' = r.result
        /\ nextsOnly' = -1
        /\ UNCHANGED <<decks, flashcards, nextCardId, nextDeckId, now>>

EndSession_deletesStudiedCards ==
    LET r == StudyManager_endSession(currentSession, now)
    IN  /\ lastCall' = [op |-> "endSession"]
        /\ currentSession' = r.currentSession
        /\ result' = r.result
        /\ nextsOnly' = -1
        /\ flashcards' = IF currentSession = NoSession
                         THEN flashcards
                         ELSE SelectSeq(flashcards, LAMBDA f : f.deckId # currentSession.deckId)
        /\ UNCHANGED <<decks, nextCardId, nextDeckId, now>>

EndSession ==
    LET r == StudyManager_endSession(currentSession, now)
    IN  /\ lastCall' = [op |-> "endSession"]
        /\ currentSession' = r.currentSession
        /\ result' = r.result
        /\ nextsOnly' = -1
        /\ UNCHANGED <<decks, flashcards, nextCardId, nextDeckId, now>>

HasActiveSession ==
    /\ lastCall' = [op |-> "hasActiveSession"]
    /\ result' = [value |-> StudyManager_hasActiveSession(currentSession)]
    /\ nextsOnly' = nextsOnly
    /\ UNCHANGED <<decks, flashcards, nextCardId, nextDeckId, now, currentSession>>

GetSessionSummary ==
    LET r == StudyManager_getSessionSummary(currentSession, now)
    IN  /\ lastCall' = [op |-> "getSessionSummary"]
        /\ currentSession' = r.currentSession
        /\ result' = r.result
        /\ nextsOnly' = nextsOnly
        /\ UNCHANGED <<decks, flashcards, nextCardId, nextDeckId, now>>

\* ---------------------------------------------------------- the application
\* new DataService() on an empty localStorage, new StudyManager(dataService)
Init ==
    /\ decks = <<>>
    /\ flashcards = <<>>
    /\ nextCardId = 0
    /\ nextDeckId = 0
    /\ now = 0
    /\ currentSession = NoSession
    /\ lastCall = [op |-> "constructor"]
    /\ result = [success |-> TRUE]
    /\ nextsOnly = -1

\* the calls of the user interface on the manager
NextManager ==
    \/ \E input \in StartInputs : StartStudySession(input[1], input[2])
    \/ NextFlashcard
    \/ PreviousFlashcard
    \/ \E index \in IndexInputs : JumpToFlashcard(index)
    \/ GetCurrentFlashcard
    \/ GetSessionProgress
    \/ CompleteSession
    \/ ResetSession
    \/ EndSession
    \/ HasActiveSession
    \/ GetSessionSummary

\* the manager while other callers write the Card Store
Next ==
    \/ NextManager
    \/ \E id \in 1..MaxCards, d \in DeckIds : SaveFlashcard(id, d)
    \/ \E id \in 1..MaxCards : DeleteFlashcard(id)
    \/ \E d \in DeckIds : SaveDeck(d)
    \/ \E d \in DeckIds : DeleteDeck(d)

Spec == Init /\ [][Next]_vars

\* new StudyManager(dataService) on a store that holds up to MaxDeck
\* flashcards, each of either deck, and deck d1 or both decks
InitManager ==
    \E n \in 1..MaxDeck :
        \E deckOf \in [1..n -> DeckIds], ds \in {<<Deck("d1")>>, <<Deck("d1"), Deck("d2")>>} :
            /\ decks = ds
            /\ flashcards = [k \in 1..n |-> Card(k, deckOf[k])]
            /\ nextCardId = n
            /\ nextDeckId = Len(ds)
            /\ now = 0
            /\ currentSession = NoSession
            /\ lastCall = [op |-> "constructor"]
            /\ result = [success |-> TRUE]
            /\ nextsOnly = -1

\* the manager on a store that nothing writes
SpecManager == InitManager /\ [][NextManager]_vars

\* the manager called with any value as the index of jumpToFlashcard: a text,
\* or a number that is not an integer
AnyIndexInputs ==
    IndexInputs \cup {JsString("1")} \cup {JsNumberAndHalf(i) : i \in -1..MaxIndex}

NextManagerAnyIndex ==
    \/ NextManager
    \/ \E index \in AnyIndexInputs : JumpToFlashcard(index)

SpecAnyIndex == InitManager /\ [][NextManagerAnyIndex]_vars

\* --------------------------------------- calls on the StudySession itself
\* The session object is handed out by startStudySession (result.session) and
\* by getCurrentSession(), so its methods can be called without the manager.
SessionIndexInputs == -1..(MaxDeck + 1)

SessionNextFlashcard ==
    LET r == StudySession_nextFlashcard(currentSession, now)
    IN  /\ lastCall' = [op |-> "StudySession.nextFlashcard"]
        /\ currentSession' = r.session
        /\ result' = [value |-> r.value]
        /\ nextsOnly' = CountNext(nextsOnly, TRUE)
        /\ UNCHANGED <<decks, flashcards, nextCardId, nextDeckId, now>>

SessionPreviousFlashcard ==
    LET r == StudySession_previousFlashcard(currentSession)
    IN  /\ lastCall' = [op |-> "StudySession.previousFlashcard"]
        /\ currentSession' = r.session
        /\ result' = [value |-> r.value]
        /\ nextsOnly' = -1
        /\ UNCHANGED <<decks, flashcards, nextCardId, nextDeckId, now>>

SessionJumpToFlashcard(index) ==
    LET r == StudySession_jumpToFlashcard(currentSession, JsNumber(index))
    IN  /\ lastCall' = [op |-> "StudySession.jumpToFlashcard", index |-> index]
        /\ currentSession' = r.session
        /\ result' = [value |-> r.value]
        /\ nextsOnly' = -1
        /\ UNCHANGED <<decks, flashcards, nextCardId, nextDeckId, now>>

SessionGetCurrentFlashcard ==
    /\ lastCall' = [op |-> "StudySession.getCurrentFlashcard"]
    /\ result' = [value |-> StudySession_getCurrentFlashcard(currentSession)]
    /\ nextsOnly' = nextsOnly
    /\ UNCHANGED <<decks, flashcards, nextCardId, nextDeckId, now, currentSession>>

SessionGetProgress ==
    /\ lastCall' = [op |-> "StudySession.getProgress"]
    /\ result' = [value |-> StudySession_getProgress(currentSession)]
    /\ nextsOnly' = nextsOnly
    /\ UNCHANGED <<decks, flashcards, nextCardId, nextDeckId, now, currentSession>>

SessionCompleteSession ==
    /\ lastCall' = [op |-> "StudySession.completeSession"]
    /\ currentSession' = StudySession_completeSession(currentSession, now)
    /\ result' = [value |-> JsUndefined]
    /\ nextsOnly' = -1
    /\ UNCHANGED <<decks, flashcards, nextCardId, nextDeckId, now>>

SessionGetSessionSummary ==
    /\ lastCall' = [op |-> "StudySession.getSessionSummary"]
    /\ result' = [value |-> StudySession_getSessionSummary(currentSession, now)]
    /\ nextsOnly' = nextsOnly
    /\ UNCHANGED <<decks, flashcards, nextCardId, nextDeckId, now, currentSession>>

SessionReset ==
    /\ lastCall' = [op |-> "StudySession.reset"]
    /\ currentSession' = StudySession_reset(currentSession, now)
    /\ result' = [value |-> JsUndefined]
    /\ nextsOnly' = -1
    /\ UNCHANGED <<decks, flashcards, nextCardId, nextDeckId, now>>

\* a session just started by the manager on a deck of n cards
InitSession ==
    \E n \in 1..MaxDeck :
        LET cards == [k \in 1..n |-> Card(k, "d1")]
            r == StudyManager_startStudySession(NoSession, JsString("d1"), <<Deck("d1")>>, cards, "none", 0)
        IN  /\ decks = <<Deck("d1")>>
            /\ flashcards = cards
            /\ nextCardId = n
            /\ nextDeckId = 1
            /\ now = 0
            /\ currentSession = r.currentSession
            /\ lastCall = [op |-> "startStudySession", hadSession |-> FALSE]
            /\ result = r.result
            /\ nextsOnly = 0

\* the clock, the methods of the current session called directly, and the
\* manager's summary of that session
NextSession ==
    \/ Tick
    \/ SessionNextFlashcard
    \/ SessionPreviousFlashcard
    \/ \E index \in SessionIndexInputs : SessionJumpToFlashcard(index)
    \/ SessionGetCurrentFlashcard
    \/ SessionGetProgress
    \/ SessionCompleteSession
    \/ SessionGetSessionSummary
    \/ SessionReset
    \/ GetSessionSummary

SpecSession == InitSession /\ [][NextSession]_vars

\* the same calls where a caller that keeps calling nextFlashcard() gets its
\* call made: a call that would change something is not put off for ever
SpecSessionFair == SpecSession /\ WF_vars(SessionNextFlashcard)

\* =========================================================== record managers
\* Records as the record managers store them. A question, an answer and a
\* deck name are the sequences of their characters; ids are "c1", "c2", ...
\* for flashcards and "d1", "d2", ... for decks; a deck has its updatedAt;
\* the other timestamps and the deck description are left out.
CardId(n) == "c" \o ToString(n)
DeckId(n) == "d" \o ToString(n)

JsText(chars) == [type |-> "string", chars |-> chars]

\* String.prototype.trim
RECURSIVE TrimStart(_)
TrimStart(chars) ==
    IF chars # <<>> /\ Head(chars) = " " THEN TrimStart(Tail(chars)) ELSE chars

RECURSIVE TrimEnd(_)
TrimEnd(chars) ==
    IF chars # <<>> /\ chars[Len(chars)] = " "
    THEN TrimEnd(SubSeq(chars, 1, Len(chars) - 1))
    ELSE chars

StringTrim(chars) == TrimEnd(TrimStart(chars))

\* trim() of an id: the one id of the model that holds white space is " "
IdTrim(str) == IF str = " " THEN "" ELSE str

NewFlashcard(id, question, answer, deckId) ==
    [id |-> id, question |-> question, answer |-> answer, deckId |-> deckId]

\* new Date() is the clock, now
NewDeck(id, name, flashcardIds) ==
    [id |-> id, name |-> name, flashcardIds |-> flashcardIds, updatedAt |-> now]

Flashcard_update_deckId(flashcard, deckId) == [flashcard EXCEPT !.deckId = deckId]

Deck_update(deck, updates) ==
    [deck EXCEPT !.name = IF updates.name # JsUndefined THEN updates.name.chars ELSE @,
                 !.updatedAt = now]

Deck_addFlashcard_pushesAlways(deck, flashcardId) ==
    [deck EXCEPT !.flashcardIds = Append(@, flashcardId), !.updatedAt = now]

\* no-op when the id is already a member
Deck_addFlashcard(deck, flashcardId) ==
    IF \E k \in 1..Len(deck.flashcardIds) : deck.flashcardIds[k] = flashcardId
    THEN deck
    ELSE [deck EXCEPT !.flashcardIds = Append(@, flashcardId), !.updatedAt = now]

\* splice(indexOf(flashcardId), 1): the first occurrence goes
Deck_removeFlashcard(deck, flashcardId) ==
    IF \E k \in 1..Len(deck.flashcardIds) : deck.flashcardIds[k] = flashcardId
    THEN LET index == CHOOSE k \in 1..Len(deck.flashcardIds) :
                         /\ deck.flashcardIds[k] = flashcardId
                         /\ \A j \in 1..(k - 1) : deck.flashcardIds[j] # flashcardId
         IN  [deck EXCEPT !.flashcardIds =
                 SubSeq(@, 1, index - 1) \o SubSeq(@, index + 1, Len(@)),
                          !.updatedAt = now]
    ELSE deck

NullFlashcard == [null |-> TRUE]

\* flashcards.find(f => f.id === id), null when absent
DataService_loadFlashcard(fs, id) ==
    IF \E k \in 1..Len(fs) : fs[k].id = id
    THEN fs[CHOOSE k \in 1..Len(fs) : fs[k].id = id /\ \A j \in 1..(k - 1) : fs[j].id # id]
    ELSE NullFlashcard

\* --------------------------------------------------------- ValidationService
ValidationService_validateNonEmptyText_acceptsUntrimmed(text, fieldName) ==
    IF text.type # "string" \/ text.chars = <<>>
    THEN <<fieldName \o " is required and must be a string">>
    ELSE IF StringTrim(text.chars) = <<>>
    THEN <<fieldName \o " cannot be empty or only whitespace">>
    ELSE <<>>

ValidationService_validateNonEmptyText(text, fieldName) ==
    IF text.type # "string" \/ text.chars = <<>>
    THEN <<fieldName \o " is required and must be a string">>
    ELSE IF StringTrim(text.chars) = <<>>
    THEN <<fieldName \o " cannot be empty or only whitespace">>
    ELSE IF text.chars # StringTrim(text.chars)
    THEN <<fieldName \o " should not have leading or trailing whitespace">>
    ELSE <<>>

\* the errors; isValid is errors.length === 0
ValidationService_validateFlashcard(flashcardData, existingDecks) ==
    ValidationService_validateNonEmptyText(flashcardData.question, "Question")
    \o ValidationService_validateNonEmptyText(flashcardData.answer, "Answer")
    \o (IF JsFalsy(flashcardData.deckId) \/ flashcardData.deckId.type # "string"
        THEN <<"Deck ID is required and must be a string">>
        ELSE IF IdTrim(flashcardData.deckId.str) = ""
        THEN <<"Deck ID cannot be empty or only whitespace">>
        ELSE IF /\ Len(existingDecks) > 0
                /\ ~\E k \in 1..Len(existingDecks) :
                       existingDecks[k].id = flashcardData.deckId.str
        THEN <<"Deck ID must reference an existing deck">>
        ELSE <<>>)

ValidationService_validateUniqueDeckName_noExclude(deckName, existingDecks, excludeId) ==
    IF \E k \in 1..Len(existingDecks) : existingDecks[k].name = deckName.chars
    THEN <<"A deck with this name already exists">>
    ELSE <<>>

\* deckData.id is undefined for a deck that is being created
ValidationService_validateUniqueDeckName(deckName, existingDecks, excludeId) ==
    IF \E k \in 1..Len(existingDecks) :
           /\ JsString(existingDecks[k].id) # excludeId
           /\ existingDecks[k].name = deckName.chars
    THEN <<"A deck with this name already exists">>
    ELSE <<>>

ValidationService_validateDeck(deckData, existingDecks) ==
    LET nameErrors == ValidationService_validateNonEmptyText(deckData.name, "Name")
    IN  IF nameErrors # <<>>
        THEN nameErrors
        ELSE ValidationService_validateUniqueDeckName(deckData.name, existingDecks, deckData.id)

\* ----------------------------------------------------------- FlashcardManager
\* Each operation gives the stored decks and flashcards it leaves and its result.
Failures(errors) == [success |-> FALSE, errors |-> errors]

FlashcardManager_createFlashcard(ds, fs, n, flashcardData) ==
    LET errors == ValidationService_validateFlashcard(flashcardData, ds)
    IN  IF errors # <<>>
        THEN [decks |-> ds, flashcards |-> fs, result |-> Failures(errors)]
        ELSE LET flashcard == NewFlashcard(CardId(n + 1),
                                           StringTrim(flashcardData.question.chars),
                                           StringTrim(flashcardData.answer.chars),
                                           flashcardData.deckId.str)
                 deck == DataService_loadDeck(ds, flashcardData.deckId.str)
             IN  [decks |-> IF deck # NullDeck
                            THEN DataService_saveDeck(ds, Deck_addFlashcard(deck, flashcard.id))
                            ELSE ds,
                  flashcards |-> DataService_saveFlashcard(fs, flashcard),
                  result |-> [success |-> TRUE, flashcard |-> flashcard]]

FlashcardManager_updateFlashcard(ds, fs, id, updates) ==
    IF JsFalsy(id) \/ id.type # "string"
    THEN [decks |-> ds, flashcards |-> fs,
          result |-> Failure("Flashcard ID is required and must be a string")]
    ELSE IF DataService_loadFlashcard(fs, id.str) = NullFlashcard
    THEN [decks |-> ds, flashcards |-> fs, result |-> Failure("Flashcard not found")]
    ELSE LET flashcard == DataService_loadFlashcard(fs, id.str)
             updatedData ==
                 [question |-> IF updates.question # JsUndefined
                               THEN updates.question ELSE JsText(flashcard.question),
                  answer |-> IF updates.answer # JsUndefined
                             THEN updates.answer ELSE JsText(flashcard.answer),
                  deckId |-> IF updates.deckId # JsUndefined
                             THEN updates.deckId ELSE JsString(flashcard.deckId)]
             errors == ValidationService_validateFlashcard(updatedData, ds)
         IN  IF errors # <<>>
             THEN [decks |-> ds, flashcards |-> fs, result |-> Failures(errors)]
             ELSE LET oldDeckId == flashcard.deckId
                      newDeckId == updatedData.deckId.str
                      oldDeck == DataService_loadDeck(ds, oldDeckId)
                      ds1 == IF oldDeckId # newDeckId /\ oldDeck # NullDeck
                             THEN DataService_saveDeck(ds, Deck_removeFlashcard(oldDeck, id.str))
                             ELSE ds
                      newDeck == DataService_loadDeck(ds1, newDeckId)
                      ds2 == IF oldDeckId # newDeckId /\ newDeck # NullDeck
                             THEN DataService_saveDeck(ds1, Deck_addFlashcard(newDeck, id.str))
                             ELSE ds1
                      updated ==
                          NewFlashcard(flashcard.id,
                                       IF updates.question # JsUndefined
                                       THEN StringTrim(updates.question.chars)
                                       ELSE flashcard.question,
                                       IF updates.answer # JsUndefined
                                       THEN StringTrim(updates.answer.chars)
                                       ELSE flashcard.answer,
                                       newDeckId)
                  IN  [decks |-> ds2,
                       flashcards |-> DataService_saveFlashcard(fs, updated),
                       result |-> [success |-> TRUE, flashcard |-> updated]]

FlashcardManager_deleteFlashcard(ds, fs, id) ==
    IF JsFalsy(id) \/ id.type # "string"
    THEN [decks |-> ds, flashcards |-> fs,
          result |-> Failure("Flashcard ID is required and must be a string")]
    ELSE IF DataService_loadFlashcard(fs, id.str) = NullFlashcard
    THEN [decks |-> ds, flashcards |-> fs, result |-> Failure("Flashcard not found")]
    ELSE LET flashcard == DataService_loadFlashcard(fs, id.str)
             deck == DataService_loadDeck(ds, flashcard.deckId)
         IN  [decks |-> IF deck # NullDeck
                        THEN DataService_saveDeck(ds, Deck_removeFlashcard(deck, id.str))
                        ELSE ds,
              flashcards |-> DataService_deleteFlashcard(fs, id.str),
              result |-> [success |-> TRUE]]

\* ---------------------------------------------------------------- DeckManager
\* decks.find(d => d.id === deckId) for any value given as the id
DeckManager_getDeck(ds, deckId) ==
    IF deckId.type = "string" THEN DataService_loadDeck(ds, deckId.str) ELSE NullDeck

DeckManager_createDeck(ds, n, deckData) ==
    LET errors == ValidationService_validateDeck(deckData, ds)
    IN  IF errors # <<>>
        THEN [decks |-> ds, result |-> Failures(errors)]
        ELSE LET deck == NewDeck(DeckId(n + 1), StringTrim(deckData.name.chars), <<>>)
             IN  [decks |-> DataService_saveDeck(ds, deck),
                  result |-> [success |-> TRUE, deck |-> deck]]

\* updates.name undefined keeps the stored name
DeckManager_updateDeck(ds, deckId, updates) ==
    IF DeckManager_getDeck(ds, deckId) = NullDeck
    THEN [decks |-> ds, result |-> Failure("Deck not found")]
    ELSE LET existingDeck == DataService_loadDeck(ds, deckId.str)
             updatedData == [id |-> deckId,
                             name |-> IF updates.name # JsUndefined
                                      THEN updates.name ELSE JsText(existingDeck.name)]
             errors == ValidationService_validateDeck(updatedData, ds)
         IN  IF errors # <<>>
             THEN [decks |-> ds, result |-> Failures(errors)]
             ELSE LET deck == Deck_update(existingDeck,
                                  IF updates.name # JsUndefined
                                  THEN [name |-> JsText(StringTrim(updates.name.chars))]
                                  ELSE [name |-> JsUndefined])
                  IN  [decks |-> DataService_saveDeck(ds, deck),
                       result |-> [success |-> TRUE, deck |-> deck]]

DeckManager_deleteDeck_ignoresOption(ds, fs, deckId, deleteFlashcards) ==
    IF DeckManager_getDeck(ds, deckId) = NullDeck
    THEN [decks |-> ds, flashcards |-> fs, result |-> Failure("Deck not found")]
    ELSE LET cards == DataService_loadFlashcardsForDeck(fs, deckId.str)
         IN  [decks |-> DataService_deleteDeck(ds, deckId.str),
              flashcards |-> SelectSeq(fs, LAMBDA f :
                                 ~\E k \in 1..Len(cards) : cards[k].id = f.id),
              result |-> [success |-> TRUE, deletedFlashcards |-> Len(cards)]]

DeckManager_deleteDeck(ds, fs, deckId, deleteFlashcards) ==
    IF DeckManager_getDeck(ds, deckId) = NullDeck
    THEN [decks |-> ds, flashcards |-> fs, result |-> Failure("Deck not found")]
    ELSE LET cards == DataService_loadFlashcardsForDeck(fs, deckId.str)
         IN  IF deleteFlashcards
             THEN [decks |-> DataService_deleteDeck(ds, deckId.str),
                   flashcards |-> SelectSeq(fs, LAMBDA f :
                                      ~\E k \in 1..Len(cards) : cards[k].id = f.id),
                   result |-> [success |-> TRUE, deletedFlashcards |-> Len(cards)]]
             ELSE IF Len(cards) > 0
             THEN [decks |-> ds, flashcards |-> fs,
                   result |-> Failure("Cannot delete deck: it contains "
                                      \o ToString(Len(cards)) \o " flashcard(s). "
                                      \o "Delete flashcards first or use deleteFlashcards option.")]
             ELSE [decks |-> DataService_deleteDeck(ds, deckId.str),
                   flashcards |-> fs,
                   result |-> [success |-> TRUE, deletedFlashcards |-> 0]]

DeckManager_addFlashcardToDeck(ds, fs, deckId, flashcardId) ==
    IF DeckManager_getDeck(ds, deckId) = NullDeck
    THEN [decks |-> ds, flashcards |-> fs, result |-> Failure("Deck not found")]
    ELSE IF flashcardId.type # "string"
            \/ DataService_loadFlashcard(fs, flashcardId.str) = NullFlashcard
    THEN [decks |-> ds, flashcards |-> fs, result |-> Failure("Flashcard not found")]
    ELSE LET deck == Deck_addFlashcard(DataService_loadDeck(ds, deckId.str), flashcardId.str)
             flashcard == Flashcard_update_deckId(
                              DataService_loadFlashcard(fs, flashcardId.str), deckId.str)
         IN  [decks |-> DataService_saveDeck(ds, deck),
              flashcards |-> DataService_saveFlashcard(fs, flashcard),
              result |-> [success |-> TRUE]]

DeckManager_removeFlashcardFromDeck(ds, fs, deckId, flashcardId) ==
    IF DeckManager_getDeck(ds, deckId) = NullDeck
    THEN [decks |-> ds, flashcards |-> fs, result |-> Failure("Deck not found")]
    ELSE IF flashcardId.type # "string"
            \/ DataService_loadFlashcard(fs, flashcardId.str) = NullFlashcard
    THEN [decks |-> ds, flashcards |-> fs, result |-> Failure("Flashcard not found")]
    ELSE LET deck == Deck_removeFlashcard(DataService_loadDeck(ds, deckId.str), flashcardId.str)
             flashcard == Flashcard_update_deckId(
                              DataService_loadFlashcard(fs, flashcardId.str), "")
         IN  [decks |-> DataService_saveDeck(ds, deck),
              flashcards |-> DataService_saveFlashcard(fs, flashcard),
              result |-> [success |-> TRUE]]

\* ------------------------------------------- inputs of the record managers
\* no value, the empty text, blanks, a text with blanks at both ends, and
\* a text that passes
TextInputs ==
    {JsUndefined, JsText(<<>>), JsText(<<" ">>), JsText(<<" ", "a", " ">>), JsText(<<"a">>)}

NameInputs ==
    {JsUndefined, JsText(<<" ">>), JsText(<<"A", " ">>), JsText(<<"A">>), JsText(<<"B">>)}

\* the ids generateId() has handed out as deck ids so far, and values that
\* are no deck id
CrudDeckIdInputs(n) ==
    {JsUndefined, JsString(" "), JsString("nodeck")}
    \cup {JsString(DeckId(k)) : k \in 1..n}

CardIdInputs(n) ==
    {JsUndefined, JsString("nocard")} \cup {JsString(CardId(k)) : k \in 1..n}

\* the question, the answer or the deck id varies, the rest is valid; the
\* texts vary for the deck id handed out last
FlashcardDataInputs(n) ==
    {[question |-> q, answer |-> JsText(<<"a">>), deckId |-> JsString(DeckId(n))] :
        q \in TextInputs}
    \cup {[question |-> JsText(<<"a">>), answer |-> a, deckId |-> JsString(DeckId(n))] :
            a \in TextInputs}
    \cup {[question |-> JsText(<<"a">>), answer |-> JsText(<<"a">>), deckId |-> d] :
            d \in CrudDeckIdInputs(n)}

\* one field is given, or a blank question with a deck id
UpdatesInputs(n) ==
    {[question |-> q, answer |-> JsUndefined, deckId |-> JsUndefined] : q \in TextInputs}
    \cup {[question |-> JsUndefined, answer |-> a, deckId |-> JsUndefined] :
            a \in TextInputs}
    \cup {[question |-> JsUndefined, answer |-> JsUndefined, deckId |-> d] :
            d \in CrudDeckIdInputs(n)}
    \cup {[question |-> JsText(<<" ">>), answer |-> JsUndefined, deckId |-> JsString(DeckId(k))] :
            k \in 1..n}

\* every update of a flashcard id handed out so far, one of any other id
UpdateInputs(cards, ds) ==
    {<<JsString(CardId(k)), updates>> : k \in 1..cards, updates \in UpdatesInputs(ds)}
    \cup {<<id, [question |-> JsText(<<"a">>), answer |-> JsUndefined, deckId |-> JsUndefined]>> :
            id \in {JsUndefined, JsString("nocard")}}

\* a deck id and a flashcard id: both handed out so far, or one of them not
MembershipInputs(cards, ds) ==
    {<<JsString(DeckId(d)), JsString(CardId(k))>> : d \in 1..ds, k \in 1..cards}
    \cup {<<JsString("nodeck"), JsString(CardId(k))>> : k \in 1..cards}
    \cup {<<JsString(DeckId(d)), JsString("nocard")>> : d \in 1..ds}

DeleteDeckInputs(n) == {JsString("nodeck")} \cup {JsString(DeckId(k)) : k \in 1..n}

\* every name for a deck id handed out so far, one name for any other id
UpdateDeckInputs(n) ==
    {<<JsString(DeckId(k)), [name |-> name]>> : k \in 1..n, name \in NameInputs}
    \cup {<<JsString("nodeck"), [name |-> JsText(<<"A">>)]>>}

DeckDataInputs == {[name |-> name, id |-> JsUndefined] : name \in NameInputs}

\* ---------------------------------------------- calls on the record managers
CreateFlashcard(flashcardData) ==
    LET r == FlashcardManager_createFlashcard(decks, flashcards, nextCardId, flashcardData)
    IN  /\ lastCall' = [op |-> "createFlashcard"]
        /\ ~r.result.success \/ nextCardId + nextDeckId < MaxIds
        /\ decks' = r.decks
        /\ flashcards' = r.flashcards
        /\ nextCardId' = IF r.result.success THEN nextCardId + 1 ELSE nextCardId
        /\ result' = r.result
        /\ UNCHANGED <<nextDeckId, now, currentSession, nextsOnly>>

UpdateFlashcard(id, updates) ==
    LET r == FlashcardManager_updateFlashcard(decks, flashcards, id, updates)
    IN  /\ lastCall' = [op |-> "updateFlashcard"]
        /\ decks' = r.decks
        /\ flashcards' = r.flashcards
        /\ result' = r.result
        /\ UNCHANGED <<nextCardId, nextDeckId, now, currentSession, nextsOnly>>

ManagerDeleteFlashcard(id) ==
    LET r == FlashcardManager_deleteFlashcard(decks, flashcards, id)
    IN  /\ lastCall' = [op |-> "deleteFlashcard"]
        /\ decks' = r.decks
        /\ flashcards' = r.flashcards
        /\ result' = r.result
        /\ UNCHANGED <<nextCardId, nextDeckId, now, currentSession, nextsOnly>>

CreateDeck(deckData) ==
    LET r == DeckManager_createDeck(decks, nextDeckId, deckData)
    IN  /\ lastCall' = [op |-> "createDeck"]
        /\ ~r.result.success \/ nextCardId + nextDeckId < MaxIds
        /\ decks' = r.decks
        /\ nextDeckId' = IF r.result.success THEN nextDeckId + 1 ELSE nextDeckId
        /\ result' = r.result
        /\ UNCHANGED <<flashcards, nextCardId, now, currentSession, nextsOnly>>

UpdateDeck(deckId, updates) ==
    LET r == DeckManager_updateDeck(decks, deckId, updates)
    IN  /\ lastCall' = [op |-> "updateDeck"]
        /\ decks' = r.decks
        /\ result' = r.result
        /\ UNCHANGED <<flashcards, nextCardId, nextDeckId, now, currentSession, nextsOnly>>

ManagerDeleteDeck(deckId, deleteFlashcards) ==
    LET r == DeckManager_deleteDeck(decks, flashcards, deckId, deleteFlashcards)
    IN  /\ lastCall' = [op |-> "deleteDeck"]
        /\ decks' = r.decks
        /\ flashcards' = r.flashcards
        /\ result' = r.result
        /\ UNCHANGED <<nextCardId, nextDeckId, now, currentSession, nextsOnly>>

AddFlashcardToDeck(deckId, flashcardId) ==
    LET r == DeckManager_addFlashcardToDeck(decks, flashcards, deckId, flashcardId)
    IN  /\ lastCall' = [op |-> "addFlashcardToDeck"]
        /\ decks' = r.decks
        /\ flashcards' = r.flashcards
        /\ result' = r.result
        /\ UNCHANGED <<nextCardId, nextDeckId, now, currentSession, nextsOnly>>

RemoveFlashcardFromDeck(deckId, flashcardId) ==
    LET r == DeckManager_removeFlashcardFromDeck(decks, flashcards, deckId, flashcardId)
    IN  /\ lastCall' = [op |-> "removeFlashcardFromDeck"]
        /\ decks' = r.decks
        /\ flashcards' = r.flashcards
        /\ result' = r.result
        /\ UNCHANGED <<nextCardId, nextDeckId, now, currentSession, nextsOnly>>

\* the calls of the user interface on FlashcardManager and DeckManager
NextCrud ==
    \/ \E flashcardData \in FlashcardDataInputs(nextDeckId) : CreateFlashcard(flashcardData)
    \/ \E input \in UpdateInputs(nextCardId, nextDeckId) : UpdateFlashcard(input[1], input[2])
    \/ \E id \in CardIdInputs(nextCardId) : ManagerDeleteFlashcard(id)
    \/ \E deckData \in DeckDataInputs : CreateDeck(deckData)
    \/ \E input \in UpdateDeckInputs(nextDeckId) : UpdateDeck(input[1], input[2])
    \/ \E deckId \in DeleteDeckInputs(nextDeckId), deleteFlashcards \in BOOLEAN :
           ManagerDeleteDeck(deckId, deleteFlashcards)
    \/ \E input \in MembershipInputs(nextCardId, nextDeckId) :
           AddFlashcardToDeck(input[1], input[2])
    \/ \E input \in MembershipInputs(nextCardId, nextDeckId) :
           RemoveFlashcardFromDeck(input[1], input[2])

\* the record managers on a store that is empty at first
SpecCrud == Init /\ [][NextCrud]_vars

\* ------------------------------------------------ calls on one Deck object
\* the flashcard ids handed out so far and an id of no stored flashcard
DeckFlashcardIdInputs(n) == {CardId(k) : k \in 1..n} \cup {"nocard"}

DeckAddFlashcard(flashcardId) ==
    /\ lastCall' = [op |-> "addFlashcard", flashcardId |-> flashcardId]
    /\ decks' = [decks EXCEPT ![1] = Deck_addFlashcard(@, flashcardId)]
    /\ result' = [success |-> TRUE]
    /\ UNCHANGED <<flashcards, nextCardId, nextDeckId, now, currentSession, nextsOnly>>

DeckRemoveFlashcard(flashcardId) ==
    /\ lastCall' = [op |-> "removeFlashcard", flashcardId |-> flashcardId]
    /\ decks' = [decks EXCEPT ![1] = Deck_removeFlashcard(@, flashcardId)]
    /\ result' = [success |-> TRUE]
    /\ UNCHANGED <<flashcards, nextCardId, nextDeckId, now, currentSession, nextsOnly>>

\* the store after createDeck and n createFlashcard calls at time 0
InitDeck ==
    \E n \in 1..MaxCards :
        /\ now = 0
        /\ decks = <<NewDeck(DeckId(1), <<"A">>, [k \in 1..n |-> CardId(k)])>>
        /\ flashcards = [k \in 1..n |-> NewFlashcard(CardId(k), <<"a">>, <<"a">>, DeckId(1))]
        /\ nextCardId = n
        /\ nextDeckId = 1
        /\ currentSession = NoSession
        /\ lastCall = [op |-> "constructor"]
        /\ result = [success |-> TRUE]
        /\ nextsOnly = -1

\* the clock, the membership methods of the one Deck, and the membership
\* calls of the DeckManager
NextDeck ==
    \/ Tick
    \/ \E flashcardId \in DeckFlashcardIdInputs(nextCardId) : DeckAddFlashcard(flashcardId)
    \/ \E flashcardId \in DeckFlashcardIdInputs(nextCardId) : DeckRemoveFlashcard(flashcardId)
    \/ \E input \in MembershipInputs(nextCardId, nextDeckId) :
           AddFlashcardToDeck(input[1], input[2])
    \/ \E input \in MembershipInputs(nextCardId, nextDeckId) :
           RemoveFlashcardFromDeck(input[1], input[2])

SpecDeck == InitDeck /\ [][NextDeck]_vars

\* ================================================================== claims
\* C1: after a start on a deck of N cards followed by next() calls only, the
\* session is not complete after each of the first N-1 calls (next() returns
\* hasNext true, isComplete false) and is complete after the N-th (hasNext
\* false, isComplete true).
C1_CompleteExactlyOnNthNext ==
    nextsOnly >= 0 =>
        /\ currentSession # NoSession
        /\ LET N == Len(currentSession.flashcards)
           IN  /\ nextsOnly < N => ~currentSession.isComplete
               /\ nextsOnly = N => currentSession.isComplete
               /\ (lastCall.op = "nextFlashcard" /\ nextsOnly < N) =>
                      result.success /\ result.hasNext /\ ~result.isComplete
               /\ (lastCall.op = "nextFlashcard" /\ nextsOnly = N) =>
                      result.success /\ ~result.hasNext /\ result.isComplete

C1_Witness ==
    /\ lastCall.op = "nextFlashcard"
    /\ nextsOnly = 3
    /\ Len(currentSession.flashcards) = 3
    /\ result.isComplete

\* C2: a start that fails leaves the manager's current session exactly as it
\* was, an active one with its cursor, reviewed set and completion flag, and
\* none as none.
C2_FailedStartKeepsSession ==
    [][\A input \in StartInputs :
          (StartStudySession(input[1], input[2]) /\ ~result'.success)
              => currentSession' = currentSession]_vars

C2_Witness ==
    /\ lastCall.op = "startStudySession"
    /\ result = Failure("Deck contains no flashcards to study")
    /\ currentSession # NoSession
    /\ currentSession.currentIndex = 1
    /\ currentSession.reviewedCards = {0}

\* C3: the session's jumpTo(i) succeeds exactly when the session is not
\* complete and 0 <= i < N; on success only the cursor changes, to i, and
\* current() is cards[i]; on failure nothing of the session changes.
C3_JumpToExactlyInRange ==
    [][\A i \in SessionIndexInputs :
          SessionJumpToFlashcard(i) =>
              LET s == currentSession
                  ok == ~s.isComplete /\ 0 <= i /\ i < Len(s.flashcards)
              IN  /\ result'.value = ok
                  /\ ok => /\ currentSession' = [s EXCEPT !.currentIndex = i]
                           /\ StudySession_getCurrentFlashcard(currentSession') = s.flashcards[i + 1]
                  /\ ~ok => currentSession' = s]_vars

C3_Witness ==
    /\ lastCall = [op |-> "StudySession.jumpToFlashcard", index |-> 2]
    /\ result.value
    /\ currentSession.currentIndex = 2
    /\ currentSession.reviewedCards = {0}

\* C4: reset() puts the session at cursor 0, not complete, endTime null and
\* nothing reviewed, so that current() is cards[0] and progress() counts 0
\* reviewed cards; the deck and the card list stay as they were.
C4_ResetRestoresStart ==
    [][SessionReset =>
          /\ currentSession'.currentIndex = 0
          /\ ~currentSession'.isComplete
          /\ currentSession'.endTime = NullTime
          /\ currentSession'.reviewedCards = {}
          /\ currentSession'.flashcards = currentSession.flashcards
          /\ currentSession'.deckId = currentSession.deckId
          /\ StudySession_getCurrentFlashcard(currentSession') = currentSession.flashcards[1]
          /\ StudySession_getProgress(currentSession').reviewedCount = 0]_vars

C4_Witness ==
    /\ lastCall.op = "StudySession.reset"
    /\ currentSession.startTime > 0
    /\ currentSession.currentIndex = 0
    /\ currentSession.reviewedCards = {}
    /\ ~currentSession.isComplete

C6_SummaryAfterKNexts ==
    (lastCall.op = "getSessionSummary" /\ nextsOnly >= 0
        /\ nextsOnly < Len(currentSession.flashcards)) =>
            /\ result.success
            /\ result.summary.reviewedCards = nextsOnly
            /\ result.summary.totalCards = Len(currentSession.flashcards)
            /\ ~result.summary.isComplete
            /\ StudyManager_hasActiveSession(currentSession)

C6_Witness ==
    /\ lastCall.op = "getSessionSummary"
    /\ nextsOnly = 2
    /\ result.summary.reviewedCards = 2
    /\ result.summary.totalCards = 3
    /\ ~result.summary.isComplete

C8_EndReportsAsIsAndClears ==
    [][(EndSession /\ currentSession # NoSession) =>
          /\ result'.success
          /\ result'.summary.isComplete = currentSession.isComplete
          /\ result'.summary.reviewedCards = Cardinality(currentSession.reviewedCards)
          /\ currentSession' = NoSession]_vars

C8_Witness ==
    /\ lastCall.op = "endSession"
    /\ result.success
    /\ ~result.summary.isComplete
    /\ result.summary.reviewedCards = 1
    /\ result.summary.totalCards = 3
    /\ currentSession = NoSession

\* C9: without a session, next, previous, jumpTo, current, progress,
\* complete, end, reset and summary each return the failure naming the
\* missing active session, and the manager still has no session.
C9_NoActiveSessionFailure ==
    [][(/\ currentSession = NoSession
        /\ \/ NextFlashcard
           \/ PreviousFlashcard
           \/ \E index \in IndexInputs : JumpToFlashcard(index)
           \/ GetCurrentFlashcard
           \/ GetSessionProgress
           \/ CompleteSession
           \/ EndSession
           \/ ResetSession
           \/ GetSessionSummary) =>
          /\ result' = Failure(NoActiveSession)
          /\ currentSession' = NoSession]_vars

C9_Witness ==
    /\ lastCall.op = "getSessionSummary"
    /\ result = Failure(NoActiveSession)
    /\ currentSession = NoSession
    /\ Len(flashcards) > 0

\* C10: when the Card Store answers, start(deckId) fails with the invalid
\* argument error for a missing or non-text deckId, else with not found when
\* no deck of that id is stored, else with empty deck when no stored card is
\* of that deck; otherwise it succeeds with a session at cursor 0, not
\* complete, nothing reviewed, holding as many cards as the store has for
\* the deck at the call.
C10_StartOutcome ==
    [][\A deckId \in DeckIdInputs :
          StartStudySession(deckId, "none") =>
              LET invalid == deckId.type # "string" \/ deckId.str = ""
                  stored == \E k \in 1..Len(decks) : decks[k].id = deckId.str
                  count == Cardinality({k \in 1..Len(flashcards) :
                                           flashcards[k].deckId = deckId.str})
              IN  IF invalid
                  THEN result' = Failure("Deck ID is required and must be a string")
                  ELSE IF ~stored
                  THEN result' = Failure("Deck not found")
                  ELSE IF count = 0
                  THEN result' = Failure("Deck contains no flashcards to study")
                  ELSE /\ result'.success
                       /\ result'.session = currentSession'
                       /\ currentSession'.deckId = deckId.str
                       /\ currentSession'.currentIndex = 0
                       /\ ~currentSession'.isComplete
                       /\ currentSession'.reviewedCards = {}
                       /\ Len(currentSession'.flashcards) = count]_vars

C10_Witness ==
    /\ lastCall.op = "startStudySession"
    /\ result.success
    /\ currentSession.deckId = "d2"
    /\ Len(currentSession.flashcards) = 1
    /\ Len(flashcards) = 2
    /\ currentSession.currentIndex = 0

\* C11: start(deckId) called while a session is current, with a text deckId
\* of a stored deck that has stored cards, succeeds and makes a fresh session
\* for deckId current (cursor 0, nothing reviewed, not complete, the cards the
\* store holds for the deck); the session that was current is dropped.
C11_StartReplacesCurrentSession ==
    [][\A deckId \in DeckIds :
          (/\ StartStudySession(JsString(deckId), "none")
           /\ currentSession # NoSession
           /\ DataService_loadDeck(decks, deckId) # NullDeck
           /\ DataService_loadFlashcardsForDeck(flashcards, deckId) # <<>>) =>
              /\ result' = [success |-> TRUE, session |-> currentSession']
              /\ currentSession' =
                     StudySession(deckId, DataService_loadFlashcardsForDeck(flashcards, deckId), now)]_vars

C11_Witness ==
    /\ lastCall.op = "startStudySession"
    /\ lastCall.hadSession
    /\ result.success
    /\ currentSession.deckId = "d2"
    /\ currentSession.reviewedCards = {}
    /\ Len(currentSession.flashcards) = 2

\* C12: reset() with a current session, complete or not, succeeds and keeps
\* that session current: the same deck and cards are held, hasActiveSession()
\* is true and progress() reports cursor 0, none reviewed, not complete and
\* the same number of cards.
C12_ResetKeepsSessionCurrent ==
    [][(ResetSession /\ currentSession # NoSession) =>
          /\ result' = [success |-> TRUE]
          /\ StudyManager_hasActiveSession(currentSession')
          /\ currentSession'.deckId = currentSession.deckId
          /\ currentSession'.flashcards = currentSession.flashcards
          /\ LET progress == StudyManager_getSessionProgress(currentSession').result.progress
             IN  /\ progress.currentIndex = 0
                 /\ progress.reviewedCount = 0
                 /\ ~progress.isComplete
                 /\ progress.totalCards = Len(currentSession.flashcards)]_vars

C12_Witness ==
    /\ lastCall.op = "resetSession"
    /\ result.success
    /\ currentSession # NoSession
    /\ currentSession.currentIndex = 0
    /\ currentSession.reviewedCards = {}
    /\ Len(currentSession.flashcards) = MaxDeck

\* C13: getSessionSummary() of the session and of the manager, called in any
\* state of a current session, leave the session (cursor, reviewed set,
\* isComplete, startTime, endTime) and the manager's reference to it as they
\* were; for a session that is not complete the summary's endTime is null.
C13_SummaryIsPureRead ==
    [][/\ SessionGetSessionSummary =>
            /\ currentSession' = currentSession
            /\ ~currentSession.isComplete => result'.value.endTime = NullTime
       /\ (GetSessionSummary /\ currentSession # NoSession) =>
            /\ currentSession' = currentSession
            /\ result'.success
            /\ ~currentSession.isComplete => result'.summary.endTime = NullTime]_vars

C13_Witness ==
    /\ lastCall.op = "getSessionSummary"
    /\ result.success
    /\ result.summary.endTime = NullTime
    /\ result.summary.reviewedCards = 1
    /\ result.summary.duration = 1
    /\ ~currentSession.isComplete
    /\ currentSession.currentIndex = 1
    /\ now = currentSession.startTime + 1

\* C14: jumpToFlashcard(index) with a current session and an index that is
\* not a non-negative integer (a negative number, a value that is not a
\* number, a number with a fractional part) returns the failure 'Index must
\* be a non-negative number' and leaves the session, cursor included, as it was.
C14_JumpRejectsNonIntegerIndex ==
    [][\A index \in AnyIndexInputs :
          (/\ JumpToFlashcard(index)
           /\ currentSession # NoSession
           /\ (index.type # "number" \/ index.num < 0 \/ index.half)) =>
              /\ result' = Failure("Index must be a non-negative number")
              /\ currentSession' = currentSession]_vars

C17_NavigationOnCompleteFails ==
    [][/\ (NextFlashcard /\ currentSession # NoSession /\ currentSession.isComplete) =>
             /\ ~result'.success
             /\ "errors" \in DOMAIN result'
       /\ \A i \in 0..MaxIndex :
             (/\ JumpToFlashcard(JsNumber(i))
              /\ currentSession # NoSession
              /\ (i >= Len(currentSession.flashcards) \/ currentSession.isComplete)) =>
                 /\ ~result'.success
                 /\ "errors" \in DOMAIN result']_vars

\* C17 amended: nextFlashcard() on a current session that is complete is not
\* a failure: it returns success true, hasNext false, isComplete true and
\* leaves the session as it was; jumpToFlashcard(index) with a non-negative
\* integer index that is out of range, or on a session that is complete,
\* returns the failure 'Invalid flashcard index or session is complete' and
\* leaves the session as it was.
C17_NextOnCompleteSucceedsJumpFails ==
    [][/\ (NextFlashcard /\ currentSession # NoSession /\ currentSession.isComplete) =>
             /\ result' = [success |-> TRUE, hasNext |-> FALSE, isComplete |-> TRUE]
             /\ currentSession' = currentSession
       /\ \A i \in 0..MaxIndex :
             (/\ JumpToFlashcard(JsNumber(i))
              /\ currentSession # NoSession
              /\ (i >= Len(currentSession.flashcards) \/ currentSession.isComplete)) =>
                 /\ result' = Failure("Invalid flashcard index or session is complete")
                 /\ currentSession' = currentSession]_vars

\* the second next() on a deck of one card: the first completed the session
C17_Witness ==
    /\ lastCall.op = "nextFlashcard"
    /\ nextsOnly = 2
    /\ Len(currentSession.flashcards) = 1
    /\ currentSession.isComplete
    /\ result = [success |-> TRUE, hasNext |-> FALSE, isComplete |-> TRUE]

\* C18: the manager holds no session at first; a start that succeeds leaves
\* one current, a complete() or end() that succeeds leaves none, and every
\* other call (a start that fails, next, previous, jumpTo, current, progress,
\* reset, summary, hasActiveSession, a complete or end that fails) leaves
\* hasActiveSession() as it was; so hasActiveSession() is true exactly when a
\* start has succeeded and no complete or end has succeeded since.
C18_ActiveFromStartToCompleteOrEnd ==
    /\ ~StudyManager_hasActiveSession(currentSession)
    /\ [][IF lastCall'.op = "startStudySession" /\ result'.success
          THEN StudyManager_hasActiveSession(currentSession')
          ELSE IF lastCall'.op \in {"completeSession", "endSession"} /\ result'.success
          THEN ~StudyManager_hasActiveSession(currentSession')
          ELSE StudyManager_hasActiveSession(currentSession')
                  = StudyManager_hasActiveSession(currentSession)]_vars

\* hasActiveSession() answers true for a session that next() completed
C18_Witness ==
    /\ lastCall.op = "hasActiveSession"
    /\ result.value
    /\ currentSession # NoSession
    /\ currentSession.isComplete
    /\ nextsOnly = Len(currentSession.flashcards)

\* C19: createFlashcard with a question or an answer that is missing, empty,
\* blank or not trimmed, and updateFlashcard given such a question or answer,
\* return success false with errors and leave the stored flashcards and the
\* stored decks (their membership lists included) as they were; and every
\* stored flashcard has a question and an answer that are not empty and are
\* trimmed.
C19_InvalidTextRejected ==
    /\ [](\A k \in 1..Len(flashcards) :
             /\ flashcards[k].question # <<>>
             /\ flashcards[k].question = StringTrim(flashcards[k].question)
             /\ flashcards[k].answer # <<>>
             /\ flashcards[k].answer = StringTrim(flashcards[k].answer))
    /\ [][LET bad(text) == \/ text.type # "string"
                           \/ text.chars = <<>>
                           \/ StringTrim(text.chars) = <<>>
                           \/ text.chars # StringTrim(text.chars)
              rejected == /\ ~result'.success
                          /\ Len(result'.errors) > 0
                          /\ flashcards' = flashcards
                          /\ decks' = decks
          IN  /\ lastCall'.op = "createFlashcard" =>
                    \/ rejected
                    \/ ~\E flashcardData \in FlashcardDataInputs(nextDeckId) :
                           /\ bad(flashcardData.question) \/ bad(flashcardData.answer)
                           /\ CreateFlashcard(flashcardData)
              /\ lastCall'.op = "updateFlashcard" =>
                    \/ rejected
                    \/ ~\E input \in UpdateInputs(nextCardId, nextDeckId) :
                           /\ \/ input[2].question # JsUndefined /\ bad(input[2].question)
                              \/ input[2].answer # JsUndefined /\ bad(input[2].answer)
                           /\ UpdateFlashcard(input[1], input[2])]_vars

\* an edit with a question that is not trimmed was refused
C19_Witness ==
    /\ lastCall.op = "updateFlashcard"
    /\ result = Failures(<<"Question should not have leading or trailing whitespace">>)
    /\ Len(flashcards) = 1
    /\ flashcards[1].question = <<"a">>
    /\ Len(decks) = 1
    /\ decks[1].flashcardIds = <<flashcards[1].id>>

\* C20: for every stored deck and every flashcard id, the id is in the deck's
\* flashcardIds exactly when a flashcard of that id is stored with the
\* deck's id as its deckId.
C20_MembershipAgreesWithOwnership ==
    \A d \in 1..Len(decks), n \in 1..nextCardId :
        (\E j \in 1..Len(decks[d].flashcardIds) : decks[d].flashcardIds[j] = CardId(n))
        <=> (\E k \in 1..Len(flashcards) :
                /\ flashcards[k].id = CardId(n)
                /\ flashcards[k].deckId = decks[d].id)

\* C21: no two stored decks have the same name and every stored deck name is
\* not empty and is trimmed; a createDeck or an updateDeck with the name of
\* a different stored deck fails and leaves the stored decks as they were;
\* an updateDeck of a deck with its own name succeeds and keeps the name.
C21_DeckNamesUnique ==
    /\ [](\A i \in 1..Len(decks) :
             /\ decks[i].name # <<>>
             /\ decks[i].name = StringTrim(decks[i].name)
             /\ \A j \in 1..Len(decks) : decks[i].name = decks[j].name => i = j)
    /\ [][LET rejected == /\ ~result'.success
                          /\ Len(result'.errors) > 0
                          /\ decks' = decks
              taken(name, deckId) ==
                  /\ name.type = "string"
                  /\ \E k \in 1..Len(decks) :
                         decks[k].name = name.chars /\ JsString(decks[k].id) # deckId
              own(name, deckId) ==
                  /\ name.type = "string"
                  /\ \E k \in 1..Len(decks) :
                         decks[k].name = name.chars /\ JsString(decks[k].id) = deckId
          IN  /\ lastCall'.op = "createDeck" =>
                    \/ rejected
                    \/ ~\E deckData \in DeckDataInputs :
                           taken(deckData.name, JsUndefined) /\ CreateDeck(deckData)
              /\ lastCall'.op = "updateDeck" =>
                    /\ \/ rejected
                       \/ ~\E input \in UpdateDeckInputs(nextDeckId) :
                              taken(input[2].name, input[1]) /\ UpdateDeck(input[1], input[2])
                    /\ \/ result'.success /\ decks' = decks
                       \/ ~\E input \in UpdateDeckInputs(nextDeckId) :
                              own(input[2].name, input[1]) /\ UpdateDeck(input[1], input[2])]_vars

\* the second of two decks was updated and keeps its own name
C21_Witness ==
    /\ lastCall.op = "updateDeck"
    /\ result.success
    /\ Len(decks) = 2
    /\ decks[1].name = <<"A">>
    /\ decks[2].name = <<"B">>
    /\ result.deck = decks[2]

\* C22: a deck's flashcardIds holds no id twice, after any addFlashcard,
\* removeFlashcard and DeckManager membership call; Deck.addFlashcard and
\* DeckManager.addFlashcardToDeck of an id that is already a member leave the
\* deck's list and its updatedAt as they were.
C22_FlashcardIdsAtMostOnce ==
    /\ [](\A d \in 1..Len(decks) : \A i, j \in 1..Len(decks[d].flashcardIds) :
             decks[d].flashcardIds[i] = decks[d].flashcardIds[j] => i = j)
    /\ [][LET member(deck, flashcardId) ==
                  \E k \in 1..Len(deck.flashcardIds) : deck.flashcardIds[k] = flashcardId
          IN  /\ (lastCall'.op = "addFlashcard" /\ member(decks[1], lastCall'.flashcardId))
                    => decks' = decks
              /\ lastCall'.op = "addFlashcardToDeck" =>
                    \/ decks' = decks
                    \/ ~\E input \in MembershipInputs(nextCardId, nextDeckId) :
                           /\ input[1].str = decks[1].id
                           /\ member(decks[1], input[2].str)
                           /\ AddFlashcardToDeck(input[1], input[2])]_vars

\* a member was added again after the clock advanced
C22_Witness ==
    /\ lastCall.op = "addFlashcard"
    /\ \E k \in 1..Len(decks[1].flashcardIds) : decks[1].flashcardIds[k] = lastCall.flashcardId
    /\ now > decks[1].updatedAt

\* C23: nextFlashcard() on a session that is complete returns false and
\* leaves the session (cursor, reviewed set, isComplete, endTime) as it was,
\* at every such call.
C23_NextOnCompleteIsNoOp ==
    [][(SessionNextFlashcard /\ currentSession.isComplete) =>
          /\ result'.value = FALSE
          /\ currentSession'.currentIndex = currentSession.currentIndex
          /\ currentSession'.reviewedCards = currentSession.reviewedCards
          /\ currentSession'.isComplete
          /\ currentSession'.endTime = currentSession.endTime
          /\ currentSession' = currentSession]_vars

\* the second next() in a row after the one that completed the session,
\* called when the clock had moved on since the completion
C23_Witness ==
    /\ lastCall.op = "StudySession.nextFlashcard"
    /\ nextsOnly >= Len(currentSession.flashcards) + 2
    /\ result.value = FALSE
    /\ currentSession.isComplete
    /\ currentSession.currentIndex = Len(currentSession.flashcards)
    /\ now > currentSession.endTime

\* C24: nextFlashcard() on a session that is not complete, with the cursor
\* below N-1, adds the old cursor and nothing else to the reviewed set, moves
\* the cursor up by one and returns true; with the cursor at N-1 it moves the
\* cursor to N, makes the session complete, sets endTime to the time of the
\* call and leaves every index 0..N-1 reviewed, and returns false.
C24_NextMarksAndCompletes ==
    [][(SessionNextFlashcard /\ ~currentSession.isComplete) =>
          LET N == Len(currentSession.flashcards)
          IN  /\ currentSession'.currentIndex = currentSession.currentIndex + 1
              /\ IF currentSession.currentIndex + 1 < N
                 THEN /\ result'.value = TRUE
                      /\ currentSession'.reviewedCards =
                             currentSession.reviewedCards \cup {currentSession.currentIndex}
                      /\ ~currentSession'.isComplete
                      /\ currentSession'.endTime = NullTime
                 ELSE /\ result'.value = FALSE
                      /\ currentSession'.currentIndex = N
                      /\ currentSession'.isComplete
                      /\ currentSession'.endTime = now
                      /\ currentSession'.reviewedCards = 0..(N - 1)]_vars

\* a session of three cards completed, later than it started, by a next()
\* that was not the third in a row from the start
C24_Witness ==
    /\ lastCall.op = "StudySession.nextFlashcard"
    /\ nextsOnly = -1
    /\ Len(currentSession.flashcards) = 3
    /\ currentSession.isComplete
    /\ currentSession.reviewedCards = {0, 1, 2}
    /\ currentSession.endTime > currentSession.startTime

C26_PreviousIffCursorPositive ==
    [][SessionPreviousFlashcard =>
          /\ result'.value = (currentSession.currentIndex > 0)
          /\ currentSession'.currentIndex =
                 IF currentSession.currentIndex > 0
                 THEN currentSession.currentIndex - 1
                 ELSE currentSession.currentIndex
          /\ currentSession'.isComplete = currentSession.isComplete
          /\ currentSession'.endTime = currentSession.endTime
          /\ currentSession'.reviewedCards = currentSession.reviewedCards]_vars

\* a complete session was moved back from N to N-1 and is still complete
C26_Witness ==
    /\ lastCall.op = "StudySession.previousFlashcard"
    /\ result.value = TRUE
    /\ currentSession.isComplete
    /\ currentSession.currentIndex = Len(currentSession.flashcards) - 1
    /\ currentSession.endTime # NullTime

C29_ForceCompleteIdempotent ==
    [][SessionCompleteSession =>
          /\ currentSession'.currentIndex = currentSession.currentIndex
          /\ currentSession.endTime # NullTime =>
                 currentSession'.endTime = currentSession.endTime
          /\ lastCall.op = "StudySession.completeSession" =>
                 currentSession' = currentSession]_vars

\* C30: the calls nextFlashcard(), previousFlashcard(), jumpToFlashcard(index)
\* and getCurrentFlashcard() made on a session give the same return value,
\* the same cursor and the same isComplete when made on a session with the
\* same cards, cursor and isComplete and any other reviewed set, at every
\* step of every sequence of calls.
C30_ReviewedSetDoesNotSteer ==
    [][\A reviewed \in SUBSET (0..(Len(currentSession.flashcards) - 1)) :
          LET other == [currentSession EXCEPT !.reviewedCards = reviewed]
              same(r) == /\ r.value = result'.value
                         /\ r.session.currentIndex = currentSession'.currentIndex
                         /\ r.session.isComplete = currentSession'.isComplete
                         /\ r.session.flashcards = currentSession'.flashcards
          IN  /\ SessionNextFlashcard => same(StudySession_nextFlashcard(other, now))
              /\ SessionPreviousFlashcard => same(StudySession_previousFlashcard(other))
              /\ \A index \in SessionIndexInputs :
                     SessionJumpToFlashcard(index) =>
                         same(StudySession_jumpToFlashcard(other, JsNumber(index)))
              /\ SessionGetCurrentFlashcard =>
                     StudySession_getCurrentFlashcard(other) = result'.value]_vars

\* a session at cursor 0 that is not complete and has card 1 reviewed, where
\* a session just started has none: previousFlashcard() has just brought it
\* there
C30_Witness ==
    /\ lastCall.op = "StudySession.previousFlashcard"
    /\ result.value = TRUE
    /\ ~currentSession.isComplete
    /\ currentSession.currentIndex = 0
    /\ currentSession.reviewedCards = {1}

\* C31: the cursor of the current session is a number from 0 to N; if the
\* session is not complete it is at most N-1; if it is N the session is
\* complete.
C31_CursorWithinBounds ==
    currentSession # NoSession =>
        LET s == currentSession
            N == Len(s.flashcards)
        IN  /\ s.currentIndex >= 0
            /\ s.currentIndex < N \/ (s.currentIndex = N /\ ~s.currentIndexHalf)
            /\ ~s.isComplete =>
                   s.currentIndex < N - 1 \/ (s.currentIndex = N - 1 /\ ~s.currentIndexHalf)
            /\ (s.currentIndex = N /\ ~s.currentIndexHalf) => s.isComplete

\* C32: the reviewed set of the current session holds only indices 0..N-1;
\* its size is N exactly when the session is complete; a session that is not
\* complete does not have N-1 in it, and a complete session has all of
\* 0..N-1 in it.
C32_ReviewedWithinDeck ==
    currentSession # NoSession =>
        LET s == currentSession
            N == Len(s.flashcards)
        IN  /\ s.reviewedHalves = {}
            /\ s.reviewedCards \subseteq 0..(N - 1)
            /\ (StudySession_reviewedSize(s) = N) <=> s.isComplete
            /\ ~s.isComplete => (N - 1) \notin s.reviewedCards
            /\ s.isComplete => (0..(N - 1)) \subseteq s.reviewedCards

C34_CompletedSessionStaysCurrent ==
    [][LET wasComplete == currentSession # NoSession /\ currentSession.isComplete
       IN  /\ (NextFlashcard /\ currentSession # NoSession) =>
                  /\ currentSession' # NoSession
                  /\ result'.isComplete = currentSession'.isComplete
           /\ wasComplete =>
                  /\ HasActiveSession => result'.value = TRUE
                  /\ GetSessionSummary => result'.success
                  /\ GetSessionProgress => result'.success
                  /\ GetCurrentFlashcard => ~result'.success
                  /\ NextFlashcard => currentSession' = currentSession
                  /\ (currentSession' = NoSession \/ ~currentSession'.isComplete) =>
                         \/ lastCall'.op \in {"completeSession", "endSession", "resetSession"}
                         \/ lastCall'.op = "startStudySession" /\ result'.success]_vars

\* progress() succeeded on the current session after the next() that
\* completed it and one more next()
C34_Witness ==
    /\ lastCall.op = "getSessionProgress"
    /\ result.success
    /\ currentSession # NoSession
    /\ currentSession.isComplete
    /\ nextsOnly = Len(currentSession.flashcards) + 1

\* C35: deleteDeck of an id that is no stored deck fails; deleteDeck(id, false)
\* of a stored deck that is the deckId of a stored flashcard fails and leaves
\* the decks and the flashcards as they were; deleteDeck(id, true) of a stored
\* deck succeeds, removes the deck and the flashcards whose deckId is the id
\* and no others, and reports their number as deletedFlashcards, so that no
\* stored flashcard has the id as its deckId afterwards.
C35_DeleteDeckOutcome ==
    [][lastCall'.op = "deleteDeck" =>
          \A deckId \in DeleteDeckInputs(nextDeckId) :
              LET stored == \E k \in 1..Len(decks) : decks[k].id = deckId.str
                  owned == {k \in 1..Len(flashcards) : flashcards[k].deckId = deckId.str}
              IN  /\ \/ ~result'.success
                     \/ stored
                     \/ ~\E deleteFlashcards \in BOOLEAN :
                            ManagerDeleteDeck(deckId, deleteFlashcards)
                  /\ \/ ~result'.success /\ decks' = decks /\ flashcards' = flashcards
                     \/ ~stored
                     \/ owned = {}
                     \/ ~ManagerDeleteDeck(deckId, FALSE)
                  /\ \/ /\ result'.success
                        /\ result'.deletedFlashcards = Cardinality(owned)
                        /\ decks' = SelectSeq(decks, LAMBDA d : d.id # deckId.str)
                        /\ flashcards' = SelectSeq(flashcards, LAMBDA f : f.deckId # deckId.str)
                        /\ \A k \in 1..Len(flashcards') : flashcards'[k].deckId # deckId.str
                     \/ ~stored
                     \/ ~ManagerDeleteDeck(deckId, TRUE)]_vars

\* the second of two decks was deleted together with its one flashcard
C35_Witness ==
    /\ lastCall.op = "deleteDeck"
    /\ result.success
    /\ result.deletedFlashcards = 1
    /\ Len(decks) = 1
    /\ decks[1].id = DeckId(1)
    /\ flashcards = <<>>
    /\ nextCardId = 1

\* C36: no call on the manager (start, next, previous, jumpTo, current,
\* progress, summary, reset, complete, end, hasActiveSession), and so no
\* session method it calls, changes the stored decks or the stored
\* flashcards: after any sequence of such calls the store is as it was.
C36_StudyCallsLeaveStore ==
    [][decks' = decks /\ flashcards' = flashcards]_vars

\* a session over a store of two or more flashcards was ended after a
\* next() and the flashcards are all still stored
C36_Witness ==
    /\ lastCall.op = "endSession"
    /\ result.success
    /\ result.summary.reviewedCards >= 1
    /\ currentSession = NoSession
    /\ Len(decks) >= 1
    /\ Len(flashcards) >= 2
    /\ Len(flashcards) = nextCardId

\* C37: every stored flashcard's deckId is the id of a stored deck.
C37_FlashcardsPointAtStoredDecks ==
    \A k \in 1..Len(flashcards) :
        \E d \in 1..Len(decks) : flashcards[k].deckId = decks[d].id

\* C38: the percentComplete that getProgress() reports for the current
\* session is a whole number from 0 to 100, the one nearest to reviewedCount
\* * 100 / N (a half goes up); it is 0 when no index is reviewed and 100 when
\* the session is complete; and no call on that session other than a reset
\* makes it smaller.
C38_PercentComplete ==
    /\ [](currentSession # NoSession =>
             LET s == currentSession
                 N == Len(s.flashcards)
                 p == StudySession_getProgress(s)
                 pc == p.percentComplete
             IN  /\ pc \in 0..100
                 /\ 2 * (pc * N - p.reviewedCount * 100) <= N
                 /\ 2 * (p.reviewedCount * 100 - pc * N) < N
                 /\ p.reviewedCount = 0 => pc = 0
                 /\ s.isComplete => pc = 100)
    /\ [][(/\ currentSession # NoSession
           /\ currentSession' # NoSession
           /\ lastCall'.op \notin {"StudySession.reset", "resetSession", "startStudySession"})
          => StudySession_getProgress(currentSession').percentComplete
                >= StudySession_getProgress(currentSession).percentComplete]_vars

====
